---- MODULE Spec2Model ----
(***************************************************************************)
(* Model of the process-mining derivation code of the create_data          *)
(* management command (api/management/commands/create_data.py) over the    *)
(* Case / Activity / Variant tables of api/models.py.                      *)
(*                                                                         *)
(* Timestamps are whole seconds, so a difference of two timestamps is the  *)
(* value of timedelta.total_seconds().  Quotients stored in FloatFields    *)
(* (Variant.percentage, Variant.avg_time) are kept as exact reduced        *)
(* fractions <<numerator, denominator>>.                                   *)
(***************************************************************************)
EXTENDS Integers, Sequences, FiniteSets, TLC

\* ---------------------------------------------------------------- bounds
NumCases == 2          \* case (order) ids are 1..NumCases
MaxActs == 4           \* rows of the Activity table
MaxTime == 1           \* timestamps of the logs given to create_variants
MaxClockActs == 3      \* rows of the logs given to the time derivations
MaxViewActs == 2       \* rows of the logs queried through the views
MaxClock == 3          \* timestamps of the logs given to the time derivations
MaxVariantRows == 2    \* rows of the Variant table
MaxRows == 2           \* rows of Orders_with_suppliers.csv
MaxSimTime == 1        \* latest simulated timestamp, counted from order_date
MaxLoops == 1          \* branches back to an earlier step, per simulated case

CaseIds == 1..NumCases
Times == 0..MaxTime
ClockTimes == 0..MaxClock
\* activity names given to save_activity (a sample of activity_names)
ActivityNames == {"Order Creation", "Order Approval"}
\* the list activity_names of add_reworks
activity_names ==
    <<"Order Creation", "Order Approval", "Send to Supplier",
      "Get Confirmation from Supplier",
      "Receive Shipment Confirmation from Supplier", "Receive Materials",
      "Verify Materials", "Accept Materials", "Integrate to Inventory",
      "Payment", "Order Modification", "Return Materials",
      "Distribute Materials", "Order Cancellation", "Receive Invoice">>
\* values of the order_date column of Orders_with_suppliers.csv
DateStrings == {"", "01/01/2025", "2025-01-01"}

\* ----------------------------------------------------------------- state
VARIABLES
    Activity,    \* Activity table, in insertion (primary key) order
    Case,        \* Case table: row number -> row (id: the characters of the
                 \* primary key), or NoRow when there is no such row
    Variant,     \* Variant table, in insertion (primary key) order
    cases_ids,   \* Command.cases_ids
    OrderItem,   \* OrderItem table, in insertion order
    pc,          \* the step handle() is at; "idle" when handle is not running
    loop_pos,    \* position of handle's loop over cases_ids
    case_info,   \* the case_info dict of the running simulation, or NoInfo
    returned,    \* the method of Command, or the view, that returned last
    result,      \* what it returned: None, a raised exception or a value
    request      \* the input of the last call (the query parameters of a
                 \* view, the rows of the csv file read), or NoRequest

vars == <<Activity, Case, Variant, cases_ids, OrderItem, pc, loop_pos,
          case_info, returned, result, request>>

NoRow == [exists |-> FALSE]
\* the result of a method that returns nothing
None == [type |-> "None"]
NoRequest == [view |-> "none"]
NoInfo == [case_id |-> 0]

\* the steps of handle that follow the simulation of the cases, in order
AfterStep(step) ==
    CASE step = "idle" -> "idle"
      [] step = "add_reworks" -> "add_time_to_cases"
      [] step = "add_time_to_cases" -> "create_variants"
      [] step = "create_variants" -> "add_TPT"
      [] step = "add_TPT" -> "get_mean_time_per_activity"
      [] step = "get_mean_time_per_activity" -> "done"

\* --------------------------------------------------------------- helpers
Front(s) == SubSeq(s, 1, Len(s) - 1)
Last(s) == s[Len(s)]
InSeq(x, s) == \E i \in 1..Len(s) : s[i] = x
Range(s) == {s[i] : i \in 1..Len(s)}

RECURSIVE GCD(_, _)
GCD(a, b) == IF b = 0 THEN a ELSE GCD(b, a % b)

\* the quotient n / d (d > 0) as a reduced fraction
Rat(n, d) == LET g == GCD(n, d) IN <<n \div g, d \div g>>
\* the product of a fraction and an integer
RatTimes(q, k) == Rat(q[1] * k, q[2])

\* list.sort() on a list of timestamps
SortInsert(x, s) ==
    LET k == Cardinality({i \in 1..Len(s) : s[i] <= x})
    IN  SubSeq(s, 1, k) \o <<x>> \o SubSeq(s, k + 1, Len(s))

\* (variant of Sort that leaves the list as it is)
Sort_unsorted(s) == s

RECURSIVE Sort(_)
Sort(s) == IF s = <<>> THEN <<>> ELSE SortInsert(Last(s), Sort(Front(s)))

\* ------------------------------------------------------- save_activity
\* Activity.objects.create(...) for an existing case; case_index = case.id
NewActivity(case_id, timestamp, name, rework) ==
    [case |-> case_id, timestamp |-> timestamp, name |-> name,
     tpt |-> 0, rework |-> rework, case_index |-> case_id]

save_activity(case_id, last_timestamp, activity) ==
    /\ pc = "idle"
    /\ Case[case_id].exists
    /\ Len(Activity) < MaxActs
    /\ Activity' = Append(Activity,
                          NewActivity(case_id, last_timestamp, activity, TRUE))
    /\ returned' = "save_activity"
    /\ result' = None
    /\ request' = NoRequest
    /\ UNCHANGED <<Case, Variant, cases_ids, OrderItem, pc, loop_pos,
                   case_info>>

\* ---------------------------------------------------- add_Orders_Items
\* datetime.strptime(order_date_str, '%m/%d/%Y'): the parsed date as a
\* timestamp, or a ValueError
Strptime(order_date_str) ==
    IF order_date_str = "01/01/2025"
    THEN [ValueError |-> FALSE, date |-> 0]
    ELSE [ValueError |-> TRUE]

\* add_case_ids
add_case_ids(ids, case_id) ==
    IF InSeq(case_id, ids) THEN ids ELSE Append(ids, case_id)

\* the body of the loop of add_Orders_Items for one row of the file;
\* db holds the Case table, cases_ids and the OrderItem table
OrdersRow(db, row) ==
    IF row.order_date = "" THEN db
    ELSE IF Strptime(row.order_date).ValueError THEN db
    ELSE LET id == row.order_id
             order == db.Case[id]
         IN  IF order.exists
             THEN [Case |-> [db.Case EXCEPT ![id].number_of_items = @ + 1],
                   cases_ids |-> add_case_ids(db.cases_ids, id),
                   OrderItem |-> Append(db.OrderItem, [order |-> id])]
             ELSE [Case |-> [db.Case EXCEPT ![id] =
                               [exists |-> TRUE, id |-> <<ToString(id)>>,
                                avg_time |-> 0,
                                order_date |-> Strptime(row.order_date).date,
                                number_of_items |-> 1]],
                   cases_ids |-> db.cases_ids,
                   OrderItem |-> Append(db.OrderItem, [order |-> id])]

RECURSIVE OrdersRows_break(_, _)
OrdersRows_break(db, rows) ==
    IF rows = <<>> THEN db
    ELSE IF \E i \in 1..(Len(rows) - 1) :
                rows[i].order_date = "" \/ Strptime(rows[i].order_date).ValueError
    THEN OrdersRows_break(db, Front(rows))
    ELSE OrdersRow(OrdersRows_break(db, Front(rows)), Last(rows))

RECURSIVE OrdersRows(_, _)
OrdersRows(db, rows) ==
    IF rows = <<>> THEN db
    ELSE OrdersRow(OrdersRows(db, Front(rows)), Last(rows))

CsvRows == [order_id : CaseIds, order_date : DateStrings]
CsvFiles == UNION {[1..n -> CsvRows] : n \in 0..MaxRows}

add_Orders_Items ==
    /\ pc = "add_Orders_Items"
    /\ \E csv \in CsvFiles :
          LET db == OrdersRows([Case |-> Case, cases_ids |-> cases_ids,
                                OrderItem |-> OrderItem], csv)
          IN  /\ Case' = db.Case
              /\ cases_ids' = db.cases_ids
              /\ OrderItem' = db.OrderItem
              /\ request' = [csv |-> csv]
    /\ pc' = "start"
    /\ loop_pos' = 1
    /\ returned' = "add_Orders_Items"
    /\ result' = None
    /\ UNCHANGED <<Activity, Variant, case_info>>

\* ------------------------------------------------ the case simulation
Bump_back(sim, d) ==
    [sim EXCEPT !.info.last_timestamp = @ - d]

\* case_info['last_timestamp'] += timedelta(hours=random.expovariate(1/24))
Bump(sim, d) ==
    [sim EXCEPT !.info.last_timestamp = @ + d]

\* the same followed by save_activity(case_info, activity)
Record(sim, d, activity) ==
    LET info == Bump(sim, d).info
    IN  [acts |-> Append(sim.acts,
                         NewActivity(info.case_id, info.last_timestamp,
                                     activity, TRUE)),
         info |-> info]

Running == [acts |-> Activity, info |-> case_info]
Deltas == 0..MaxSimTime
\* bound of the model on the simulated clock
InSimTime(sim) ==
    sim.info.last_timestamp
        <= Case[sim.info.case_id].order_date + MaxSimTime
\* the branches back to an earlier step that the case has taken so far:
\* 'Order Modification', 'Return Materials' and every 'Receive Materials'
\* recorded directly after another
LoopsTaken(acts, c) ==
    LET mine == SelectSeq(acts, LAMBDA a : a.case = c)
    IN  Cardinality({k \in 1..Len(mine) :
            \/ mine[k].name \in {"Order Modification", "Return Materials"}
            \/ /\ k > 1
               /\ mine[k].name = "Receive Materials"
               /\ mine[k - 1].name = "Receive Materials"})
\* bound of the model on the branches that lead back to an earlier step
MayLoop(sim) == LoopsTaken(sim.acts, sim.info.case_id) < MaxLoops

\* a step of the simulation that leaves sim and calls the method callee
Call(sim, callee) ==
    /\ InSimTime(sim)
    /\ Activity' = sim.acts
    /\ case_info' = sim.info
    /\ pc' = callee
    /\ UNCHANGED <<Case, Variant, cases_ids, OrderItem, loop_pos, returned,
                   result, request>>

\* a step of the simulation that leaves sim and returns to handle's loop
Return(sim) ==
    /\ InSimTime(sim)
    /\ Activity' = sim.acts
    /\ case_info' = NoInfo
    /\ pc' = "start"
    /\ loop_pos' = loop_pos + 1
    /\ returned' = "start"
    /\ result' = None
    /\ request' = NoRequest
    /\ UNCHANGED <<Case, Variant, cases_ids, OrderItem>>

\* handle: for id in self.cases_ids: self.start(id)
start ==
    /\ pc = "start"
    /\ loop_pos <= Len(cases_ids)
    /\ Case[cases_ids[loop_pos]].exists
    /\ case_info' = [case_id |-> cases_ids[loop_pos],
                     last_timestamp |-> Case[cases_ids[loop_pos]].order_date]
    /\ pc' = "order_creation"
    /\ UNCHANGED <<Activity, Case, Variant, cases_ids, OrderItem, loop_pos,
                   returned, result, request>>

\* handle: the loop over cases_ids is exhausted
cases_added ==
    /\ pc = "start"
    /\ loop_pos > Len(cases_ids)
    /\ pc' = "add_reworks"
    /\ UNCHANGED <<Activity, Case, Variant, cases_ids, OrderItem, loop_pos,
                   case_info, returned, result, request>>

order_creation ==
    /\ pc = "order_creation"
    /\ \E d1, d2 \in Deltas :
          Call(Record(Bump(Running, d1), d2, "Order Creation"),
               "order_approval")

order_approval ==
    /\ pc = "order_approval"
    /\ \E d \in Deltas :
          LET sim == Record(Running, d, "Order Approval")
          IN  \/ Call(sim, "send_to_supplier")
              \/ MayLoop(sim) /\ Call(sim, "order_modification")
              \/ Call(sim, "order_cancelation")

order_modification ==
    /\ pc = "order_modification"
    /\ \E d \in Deltas :
          Call(Record(Running, d, "Order Modification"), "order_approval")

order_cancelation_hang ==
    /\ pc = "order_cancelation"
    /\ UNCHANGED vars

order_cancelation ==
    /\ pc = "order_cancelation"
    /\ \E d \in Deltas : Return(Record(Running, d, "Order Cancellation"))

send_to_supplier ==
    /\ pc = "send_to_supplier"
    /\ \E d \in Deltas :
          Call(Record(Running, d, "Send to Supplier"), "get_confirmation")

get_confirmation ==
    /\ pc = "get_confirmation"
    /\ \E d \in Deltas :
          LET sim == Record(Running, d, "Get Confirmation from Supplier")
          IN  \/ Call(sim, "receive_shipment_confirmation")
              \/ MayLoop(sim) /\ Call(sim, "order_modification")
              \/ Call(sim, "order_cancelation")

receive_shipment_confirmation_unrecorded ==
    /\ pc = "receive_shipment_confirmation"
    /\ Call(Running, "receive_invoice")

receive_shipment_confirmation ==
    /\ pc = "receive_shipment_confirmation"
    /\ \E d \in Deltas :
          Call(Record(Running, d,
                      "Receive Shipment Confirmation from Supplier"),
               "receive_invoice")

receive_invoice ==
    /\ pc = "receive_invoice"
    /\ \E d \in Deltas :
          Call(Record(Running, d, "Receive Invoice"), "receive_materials")

receive_materials ==
    /\ pc = "receive_materials"
    /\ \E d \in Deltas :
          LET sim == Record(Running, d, "Receive Materials")
          IN  \/ Call(sim, "material_inspection")
              \/ MayLoop(sim) /\ Call(sim, "receive_materials")

material_inspection ==
    /\ pc = "material_inspection"
    /\ \E d \in Deltas :
          LET sim == Record(Running, d, "Verify Materials")
          IN  \/ Call(sim, "material_acceptance")
              \/ /\ MayLoop(sim)
                 /\ \E d2 \in Deltas :
                       Call(Record(sim, d2, "Return Materials"),
                            "send_to_supplier")
              \/ Call(sim, "order_cancelation")

material_acceptance ==
    /\ pc = "material_acceptance"
    /\ \E d1, d2, d3, d4 \in Deltas :
          Return(Record(Record(Record(Record(Running,
                     d1, "Accept Materials"),
                     d2, "Integrate to Inventory"),
                     d3, "Payment"),
                     d4, "Distribute Materials"))

\* --------------------------------------------------------- add_reworks
\* activities.filter(name=name).first() over order_by('timestamp'): a row of
\* the case with that name and the earliest timestamp (the database settles
\* which, when several share it)
FirstNamed_last(acts, c, name) ==
    LET S == {k \in 1..Len(acts) : acts[k].case = c /\ acts[k].name = name}
    IN  {k \in S : \A y \in S : acts[k].timestamp >= acts[y].timestamp}

FirstNamed(acts, c, name) ==
    LET S == {k \in 1..Len(acts) : acts[k].case = c /\ acts[k].name = name}
    IN  {k \in S : \A y \in S : acts[k].timestamp <= acts[y].timestamp}

\* the Activity tables add_reworks can leave after the pairs (case, name)
RECURSIVE ReworkResults(_, _)
ReworkResults(acts, pairs) ==
    IF pairs = {} THEN {acts}
    ELSE LET p == CHOOSE x \in pairs : TRUE
         IN  UNION {{[a EXCEPT ![k].rework = FALSE] :
                        k \in FirstNamed(a, p[1], p[2])} :
                       a \in ReworkResults(acts, pairs \ {p})}

add_reworks ==
    /\ pc \in {"idle", "add_reworks"}
    /\ \E updated \in ReworkResults(Activity,
              {p \in {c \in CaseIds : Case[c].exists} \X Range(activity_names) :
                  FirstNamed(Activity, p[1], p[2]) # {}}) :
          Activity' = updated
    /\ pc' = AfterStep(pc)
    /\ returned' = "add_reworks"
    /\ result' = None
    /\ request' = NoRequest
    /\ UNCHANGED <<Case, Variant, cases_ids, OrderItem, loop_pos, case_info>>

\* ----------------------------------------------------- create_variants
\* (variant of SeenCases without the membership test)
SeenCases_nodedupe(acts) == [i \in 1..Len(acts) |-> acts[i].case]

\* cases: the case ids in first-seen order
RECURSIVE SeenCases(_)
SeenCases(acts) ==
    IF acts = <<>> THEN <<>>
    ELSE LET prev == SeenCases(Front(acts))
             c == Last(acts).case
         IN  IF InSeq(c, prev) THEN prev ELSE Append(prev, c)

OfCase(acts, c) == SelectSeq(acts, LAMBDA a : a.case = c)

\* variants[case_id]: the names of the case's activities in iteration order
VariantNames(acts, c) ==
    LET mine == OfCase(acts, c) IN [i \in 1..Len(mine) |-> mine[i].name]

\* timesPerCase[case_id]: the timestamps in iteration order
TimesPerCase(acts, c) ==
    LET mine == OfCase(acts, c) IN [i \in 1..Len(mine) |-> mine[i].timestamp]

\* (variant of GroupedData that keys the groups by the set of names)
RECURSIVE GroupedData_setkey(_, _)
GroupedData_setkey(cs, acts) ==
    IF cs = <<>> THEN <<>>
    ELSE LET prev == GroupedData_setkey(Front(cs), acts)
             c == Last(cs)
             k == VariantNames(acts, c)
         IN  IF \E i \in 1..Len(prev) : Range(prev[i].key) = Range(k)
             THEN [i \in 1..Len(prev) |->
                     IF Range(prev[i].key) = Range(k)
                     THEN [prev[i] EXCEPT !.value = Append(@, c)]
                     ELSE prev[i]]
             ELSE Append(prev, [key |-> k, value |-> <<c>>])

\* (variant of GroupedData that forgets a case whose key is already present)
RECURSIVE GroupedData_dropmember(_, _)
GroupedData_dropmember(cs, acts) ==
    IF cs = <<>> THEN <<>>
    ELSE LET prev == GroupedData_dropmember(Front(cs), acts)
             c == Last(cs)
             k == VariantNames(acts, c)
         IN  IF \E i \in 1..Len(prev) : prev[i].key = k
             THEN prev
             ELSE Append(prev, [key |-> k, value |-> <<c>>])

\* grouped_data: an insertion-ordered dict, as a sequence of (key, value)
RECURSIVE GroupedData(_, _)
GroupedData(cs, acts) ==
    IF cs = <<>> THEN <<>>
    ELSE LET prev == GroupedData(Front(cs), acts)
             c == Last(cs)
             k == VariantNames(acts, c)
         IN  IF \E i \in 1..Len(prev) : prev[i].key = k
             THEN [i \in 1..Len(prev) |->
                     IF prev[i].key = k
                     THEN [prev[i] EXCEPT !.value = Append(@, c)]
                     ELSE prev[i]]
             ELSE Append(prev, [key |-> k, value |-> <<c>>])

Duration(acts, c) ==
    LET times == Sort(TimesPerCase(acts, c))
    IN  times[Len(times)] - times[1]

RECURSIVE TotalDuration(_, _)
TotalDuration(value, acts) ==
    IF value = <<>> THEN 0
    ELSE TotalDuration(Front(value), acts) + Duration(acts, Last(value))

VariantRow_totalmean(entry, acts, total) ==
    LET number_cases == Len(entry.value)
    IN  [activities |-> entry.key,
         cases |-> entry.value,
         number_cases |-> number_cases,
         percentage |-> RatTimes(Rat(number_cases, total), 100),
         avg_time |-> Rat(TotalDuration(entry.value, acts), total)]

VariantRow(entry, acts, total) ==
    LET number_cases == Len(entry.value)
    IN  [activities |-> entry.key,
         cases |-> entry.value,
         number_cases |-> number_cases,
         percentage |-> RatTimes(Rat(number_cases, total), 100),
         avg_time |-> Rat(TotalDuration(entry.value, acts), number_cases)]

NewVariants(acts) ==
    LET cases == SeenCases(acts)
        grouped_data == GroupedData(cases, acts)
    IN  [i \in 1..Len(grouped_data) |->
            VariantRow(grouped_data[i], acts, Len(cases))]

\* the iterations of the loop over grouped_data that divide by zero; the
\* divisors of an iteration are len(cases) and number_cases
ZeroDivisions_hoisted(acts) ==
    LET cases == SeenCases(acts)
        grouped_data == GroupedData(cases, acts)
    IN  {i \in 0..Len(grouped_data) :
            \/ Len(cases) = 0
            \/ i > 0 /\ Len(grouped_data[i].value) = 0}

ZeroDivisions(acts) ==
    LET cases == SeenCases(acts)
        grouped_data == GroupedData(cases, acts)
    IN  {i \in 1..Len(grouped_data) :
            \/ Len(cases) = 0
            \/ Len(grouped_data[i].value) = 0}

\* the rows created before the loop ends or raises
CreatedVariants(acts) ==
    LET failing == ZeroDivisions(acts)
        rows == NewVariants(acts)
    IN  IF failing = {} THEN rows
        ELSE SubSeq(rows, 1,
                    (CHOOSE i \in failing : \A j \in failing : i <= j) - 1)

create_variants ==
    /\ pc \in {"idle", "create_variants"}
    /\ Len(Variant) + Len(NewVariants(Activity)) <= MaxVariantRows
    /\ Variant' = Variant \o CreatedVariants(Activity)
    /\ IF ZeroDivisions(Activity) = {}
       THEN pc' = AfterStep(pc) /\ result' = None
       ELSE /\ pc' = IF pc = "idle" THEN "idle" ELSE "failed"
            /\ result' = [type |-> "ZeroDivisionError"]
    /\ returned' = "create_variants"
    /\ request' = NoRequest
    /\ UNCHANGED <<Activity, Case, cases_ids, OrderItem, loop_pos, case_info>>

\* ------------------------------------------------------------- add_TPT
\* the values of case_index in the Activity table
IndexList(acts) == {acts[k].case_index : k \in 1..Len(acts)}

\* (variant of AscOrders without order_by: ascending primary key)
RECURSIVE AscOrders_byid(_, _)
AscOrders_byid(acts, S) ==
    IF S = {} THEN {<<>>}
    ELSE LET k == CHOOSE x \in S : \A y \in S : x <= y
         IN  {<<k>> \o rest : rest \in AscOrders_byid(acts, S \ {k})}

\* the rows S by ascending primary key
RECURSIVE ListById(_)
ListById(S) ==
    IF S = {} THEN <<>>
    ELSE LET k == CHOOSE x \in S : \A y \in S : x <= y
         IN  <<k>> \o ListById(S \ {k})

\* order_by('timestamp') over the rows S: the listings of S by ascending
\* timestamp; the database settles the order of rows with equal timestamps.
\* Listings that differ only in the order of the rows before the last row of
\* a group of equal timestamps leave the same tpt values (0 for all of them),
\* so one listing is kept for every choice of last rows.
RECURSIVE AscOrders(_, _)
AscOrders(acts, S) ==
    IF S = {} THEN {<<>>}
    ELSE LET firsts == {k \in S : \A y \in S :
                            acts[k].timestamp <= acts[y].timestamp}
         IN  UNION {{ListById(firsts \ {l}) \o <<l>> \o rest :
                        rest \in AscOrders(acts, S \ firsts)} :
                       l \in firsts}

\* (variant of UpdateTpt whose next activity wraps around to the first)
UpdateTpt_wrap(acts, order) ==
    [k \in 1..Len(acts) |->
        IF \E n \in 1..Len(order) : order[n] = k
        THEN LET n == CHOOSE m \in 1..Len(order) : order[m] = k
                 nxt == order[(n % Len(order)) + 1]
             IN  [acts[k] EXCEPT
                    !.tpt = acts[nxt].timestamp - acts[k].timestamp]
        ELSE acts[k]]

\* the inner loop of add_TPT over the ordered activities of one case_index
UpdateTpt(acts, order) ==
    [k \in 1..Len(acts) |->
        IF \E n \in 1..(Len(order) - 1) : order[n] = k
        THEN LET n == CHOOSE m \in 1..(Len(order) - 1) : order[m] = k
             IN  [acts[k] EXCEPT
                    !.tpt = acts[order[n + 1]].timestamp - acts[k].timestamp]
        ELSE acts[k]]

\* (variant of TptResults that lists each case_index without order_by)
RECURSIVE TptResults_unordered(_, _)
TptResults_unordered(acts, idxs) ==
    IF idxs = {} THEN {acts}
    ELSE LET index == CHOOSE x \in idxs : TRUE
             S == {k \in 1..Len(acts) : acts[k].case_index = index}
         IN  UNION {{UpdateTpt(a, order) : order \in AscOrders_byid(a, S)} :
                       a \in TptResults_unordered(acts, idxs \ {index})}

\* the Activity tables add_TPT can leave, over the case_index values idxs
RECURSIVE TptResults(_, _)
TptResults(acts, idxs) ==
    IF idxs = {} THEN {acts}
    ELSE LET index == CHOOSE x \in idxs : TRUE
             S == {k \in 1..Len(acts) : acts[k].case_index = index}
         IN  UNION {{UpdateTpt(a, order) : order \in AscOrders(a, S)} :
                       a \in TptResults(acts, idxs \ {index})}

add_TPT ==
    /\ pc \in {"idle", "add_TPT"}
    /\ \E updated \in TptResults(Activity, IndexList(Activity)) :
          Activity' = updated
    /\ pc' = AfterStep(pc)
    /\ returned' = "add_TPT"
    /\ result' = None
    /\ request' = NoRequest
    /\ UNCHANGED <<Case, Variant, cases_ids, OrderItem, loop_pos, case_info>>

\* --------------------------------------------------- add_time_to_cases
\* the body of the loop of add_time_to_cases for one case row
CaseTime(row, acts, c) ==
    LET S == {k \in 1..Len(acts) : acts[k].case = c}
    IN  IF S = {} THEN row
        ELSE IF row.avg_time = 0
        THEN LET first == CHOOSE k \in S : \A y \in S :
                              acts[k].timestamp <= acts[y].timestamp
                 last == CHOOSE k \in S : \A y \in S :
                              acts[y].timestamp <= acts[k].timestamp
             IN  [row EXCEPT !.avg_time =
                      acts[last].timestamp - acts[first].timestamp]
        ELSE row

add_time_to_cases ==
    /\ pc \in {"idle", "add_time_to_cases"}
    /\ Case' = [c \in CaseIds |->
                  IF Case[c].exists THEN CaseTime(Case[c], Activity, c)
                  ELSE Case[c]]
    /\ pc' = AfterStep(pc)
    /\ returned' = "add_time_to_cases"
    /\ result' = None
    /\ request' = NoRequest
    /\ UNCHANGED <<Activity, Variant, cases_ids, OrderItem, loop_pos,
                   case_info>>

\* -------------------------------------------- get_mean_time_per_activity
\* the elements of a list in the order they first occur (the key order of a
\* dict filled while iterating the list)
RECURSIVE FirstSeen(_)
FirstSeen(s) ==
    IF s = <<>> THEN <<>>
    ELSE LET prev == FirstSeen(Front(s))
         IN  IF InSeq(Last(s), prev) THEN prev ELSE Append(prev, Last(s))

RECURSIVE SumSeq(_)
SumSeq(s) == IF s = <<>> THEN 0 ELSE SumSeq(Front(s)) + Last(s)

\* timesPerActivity: per case id, in first-seen order, the case's activities
\* in the order Activity.objects.all() yields them
get_case_activity_time(acts) ==
    LET cases == SeenCases(acts)
    IN  [i \in 1..Len(cases) |->
            [key |-> cases[i],
             value |-> [j \in 1..Len(OfCase(acts, cases[i])) |->
                          [ACTIVIDAD |-> OfCase(acts, cases[i])[j].name,
                           TIMESTAMP |->
                               OfCase(acts, cases[i])[j].timestamp]]]]

Abs_signed(x) == x

\* abs() of a timedelta, in seconds
Abs(x) == IF x < 0 THEN -x ELSE x

CaseDurations_next(activities) ==
    [i \in 1..(Len(activities) - 1) |->
        [ACTIVIDAD |-> activities[i + 1].ACTIVIDAD,
         duration |-> Abs(activities[i + 1].TIMESTAMP
                          - activities[i].TIMESTAMP)]]

\* the loop over range(len(activities) - 1) for one case: the name of the
\* current activity and the duration to the next one
CaseDurations(activities) ==
    [i \in 1..(Len(activities) - 1) |->
        [ACTIVIDAD |-> activities[i].ACTIVIDAD,
         duration |-> Abs(activities[i + 1].TIMESTAMP
                          - activities[i].TIMESTAMP)]]

\* the appends to activity_durations, in order, over all cases
RECURSIVE AllDurations(_)
AllDurations(timesPerActivity) ==
    IF timesPerActivity = <<>> THEN <<>>
    ELSE AllDurations(Front(timesPerActivity))
            \o CaseDurations(Last(timesPerActivity).value)

\* activity_durations: per activity name, in first-seen order, its durations
activity_durations(timesPerActivity) ==
    LET all == AllDurations(timesPerActivity)
        names == FirstSeen([i \in 1..Len(all) |-> all[i].ACTIVIDAD])
    IN  [k \in 1..Len(names) |->
            [key |-> names[k],
             value |-> LET own == SelectSeq(all,
                                   LAMBDA d : d.ACTIVIDAD = names[k])
                       IN  [i \in 1..Len(own) |-> own[i].duration]]]

\* mean_time_per_activity: the members of the returned JSON object, in order
mean_time_per_activity(timesPerActivity) ==
    LET durations == activity_durations(timesPerActivity)
    IN  [k \in 1..Len(durations) |->
            [key |-> durations[k].key,
             value |-> Rat(SumSeq(durations[k].value),
                           Len(durations[k].value))]]

get_mean_time_per_activity ==
    /\ pc \in {"idle", "get_mean_time_per_activity"}
    /\ pc' = AfterStep(pc)
    /\ returned' = "get_mean_time_per_activity"
    /\ request' = NoRequest
    /\ result' = [type |-> "json",
                  value |-> mean_time_per_activity(
                                get_case_activity_time(Activity))]
    /\ UNCHANGED <<Activity, Case, Variant, cases_ids, OrderItem, loop_pos,
                   case_info>>

\* ======================================================================
\* The views (views.py)
\* ======================================================================
\* A text is the sequence of its characters.
\* repr(text) of a str of printable characters: in double quotes when the
\* text holds ' and no ", otherwise in single quotes with ' and \ escaped
RECURSIVE Escape(_)
Escape(text) ==
    IF text = <<>> THEN <<>>
    ELSE Escape(Front(text))
            \o (IF Last(text) \in {"'", "\\"} THEN <<"\\">> ELSE <<>>)
            \o <<Last(text)>>
Repr(text) ==
    IF InSeq("'", text) /\ ~InSeq("\"", text)
    THEN <<"\"">> \o text \o <<"\"">>
    ELSE <<"'">> \o Escape(text) \o <<"'">>

\* activity.case.id of the activities of the Case row c
CaseId(c) == Case[c].id

\* str(value) of the list of case ids that create_variants stores in
\* Variant.cases: "['1', '2']"; value lists the rows of the member cases
RECURSIVE Str(_)
Str(value) ==
    IF value = <<>> THEN <<"[", "]">>
    ELSE Front(Str(Front(value)))
            \o (IF Len(value) > 1 THEN <<",", " ">> ELSE <<>>)
            \o Repr(CaseId(Last(value))) \o <<"]">>

\* text.split(sep)
RECURSIVE Split(_, _)
Split(text, sep) ==
    IF text = <<>> THEN << <<>> >>
    ELSE LET prev == Split(Front(text), sep)
         IN  IF Last(text) = sep THEN Append(prev, <<>>)
             ELSE [prev EXCEPT ![Len(prev)] = Append(@, Last(text))]

\* text.strip()
RECURSIVE Strip(_)
Strip(text) ==
    IF text # <<>> /\ text[1] = " " THEN Strip(Tail(text))
    ELSE IF text # <<>> /\ Last(text) = " " THEN Strip(Front(text))
    ELSE text

\* {case_id.strip().replace("'", "") for case_id in cases[1:-1].split(",")}
ParseCases(cases) ==
    LET parts == Split(SubSeq(cases, 2, Len(cases) - 1), ",")
    IN  {SelectSeq(Strip(parts[i]), LAMBDA ch : ch # "'") :
            i \in 1..Len(parts)}

StrptimeYmd_lenient(date_str) ==
    IF date_str = "2025-01-02"
    THEN [ValueError |-> FALSE, date |-> 86400]
    ELSE [ValueError |-> FALSE, date |-> 0]

\* datetime.strptime(date_str, "%Y-%m-%d"): the parsed day's midnight as a
\* timestamp in seconds from 2025-01-01 00:00:00, or a ValueError
StrptimeYmd(date_str) ==
    IF date_str = "2025-01-01"
    THEN [ValueError |-> FALSE, date |-> 0]
    ELSE IF date_str = "2025-01-02"
    THEN [ValueError |-> FALSE, date |-> 86400]
    ELSE [ValueError |-> TRUE]

\* the try block that validates start_date and end_date raises ValueError;
\* an absent or empty parameter ("") is not parsed
InvalidDate(req) ==
    \/ req.start_date # "" /\ StrptimeYmd(req.start_date).ValueError
    \/ req.end_date # "" /\ StrptimeYmd(req.end_date).ValueError

BadRequest ==
    [type |-> "Response", status |-> 400,
     data |-> [error |-> "Invalid date format. Use YYYY-MM-DD."]]

InRange_exclusive(timestamp, start_date, end_date) ==
    /\ start_date # "" => timestamp > StrptimeYmd(start_date).date
    /\ end_date # "" => timestamp < StrptimeYmd(end_date).date

\* filter(timestamp__gte=start_date) and filter(timestamp__lte=end_date),
\* each applied when its parameter is supplied
InRange(timestamp, start_date, end_date) ==
    /\ start_date # "" => timestamp >= StrptimeYmd(start_date).date
    /\ end_date # "" => timestamp <= StrptimeYmd(end_date).date

\* the case ids collected from the Variant rows whose id is in variant_ids
\* (the id of a row is its position in the table)
VariantCaseIds(V, variant_ids) ==
    UNION {ParseCases(Str(V[v].cases)) : v \in variant_ids \cap (1..Len(V))}

\* the variant filter: applied only when variant_ids is not empty and
\* names a stored Variant
InVariants(V, variant_ids, case_id) ==
    (variant_ids # {} /\ variant_ids \cap (1..Len(V)) # {}) =>
        CaseId(case_id) \in VariantCaseIds(V, variant_ids)

\* the primary keys of the activities left by the chain of filters; a list
\* parameter is the set of its values, an absent case_index is 0
Filtered(req, acts, V) ==
    {i \in 1..Len(acts) :
        /\ req.case_index # 0 => acts[i].case_index = req.case_index
        /\ req.case # {} => acts[i].case \in req.case
        /\ req.name # {} => acts[i].name \in req.name
        /\ InVariants(V, req.var, acts[i].case)
        /\ InRange(acts[i].timestamp, req.start_date, req.end_date)}

OrderBy_pk(ids, acts) ==
    {[k \in 1..Cardinality(ids) |->
        CHOOSE x \in ids : Cardinality({y \in ids : y < x}) = k - 1]}

\* order_by("timestamp"): every listing of the rows by ascending timestamp
\* (the database orders rows of equal timestamp as it likes)
OrderBy(ids, acts) ==
    {s \in [1..Cardinality(ids) -> ids] :
        \A k, l \in 1..Cardinality(ids) :
            k < l => /\ s[k] # s[l]
                     /\ acts[s[k]].timestamp <= acts[s[l]].timestamp}

\* ActivityList.get without the parameters type, branch, ramo, brocker,
\* state, client and creator; the page returned is the first one, with a
\* page_size of at least the number of rows
ActivityList_get(req) ==
    /\ pc = "idle"
    /\ IF InvalidDate(req) THEN result' = BadRequest
       ELSE \E page \in OrderBy(Filtered(req, Activity, Variant), Activity) :
               result' = [type |-> "Response", status |-> 200,
                          data |-> [count |-> Len(page), results |-> page]]
    /\ returned' = "ActivityList.get"
    /\ request' = req
    /\ UNCHANGED <<Activity, Case, Variant, cases_ids, OrderItem, pc,
                   loop_pos, case_info>>

\* KPIList.get with subpath None; the figures read from the Invoice table
\* are left out
KPIList_get(req) ==
    /\ pc = "idle"
    /\ result' =
          IF InvalidDate(req) THEN BadRequest
          ELSE [type |-> "Response", status |-> 200,
                data |-> [case_quantity |->
                             Cardinality({Activity[i].case :
                                 i \in {j \in 1..Len(Activity) :
                                     InRange(Activity[j].timestamp,
                                             req.start_date, req.end_date)}}),
                          variant_quantity |-> Len(Variant)]]
    /\ returned' = "KPIList.get"
    /\ request' = req
    /\ UNCHANGED <<Activity, Case, Variant, cases_ids, OrderItem, pc,
                   loop_pos, case_info>>

\* activities__icontains=param for a param that is an activity name: the
\* name is one of those rendered in the stored text of the tuple
IContains(activities, param) == InSeq(param, activities)

\* the percentage of row v is greater than that of row w
GreaterPercentage(V, v, w) ==
    V[v].percentage[1] * V[w].percentage[2]
        > V[w].percentage[1] * V[v].percentage[2]

\* order_by("-percentage"): every listing of the rows by descending
\* percentage (the database orders rows of equal percentage as it likes)
OrderByPercentage(ids, V) ==
    {s \in [1..Cardinality(ids) -> ids] :
        \A k, l \in 1..Cardinality(ids) :
            k < l => /\ s[k] # s[l]
                     /\ ~GreaterPercentage(V, s[l], s[k])}

VariantList_get_saving(req) ==
    /\ pc = "idle"
    /\ Variant # <<>>
    /\ Variant' = [Variant EXCEPT ![1].percentage = <<0, 1>>]
    /\ result' = [type |-> "Response", status |-> 200,
                  data |-> [count |-> 0, results |-> <<>>]]
    /\ returned' = "VariantList.get"
    /\ request' = req
    /\ UNCHANGED <<Activity, Case, cases_ids, OrderItem, pc, loop_pos,
                   case_info>>

\* VariantList.get; the page returned is the first one, with a page_size of
\* at least the number of rows
VariantList_get(req) ==
    /\ pc = "idle"
    /\ \E page \in OrderByPercentage(
                       {v \in 1..Len(Variant) :
                           \A param \in req.activities :
                               IContains(Variant[v].activities, param)},
                       Variant) :
          result' = [type |-> "Response", status |-> 200,
                     data |-> [count |-> Len(page), results |-> page]]
    /\ returned' = "VariantList.get"
    /\ request' = req
    /\ UNCHANGED <<Activity, Case, Variant, cases_ids, OrderItem, pc,
                   loop_pos, case_info>>

\* ======================================================================
\* Properties of create_variants
\* ======================================================================
\* the case ids that have at least one activity
ActiveCases(acts) == {acts[i].case : i \in 1..Len(acts)}
\* the rows of the case's activities, by ascending primary key
IdsOf(acts, c) == {i \in 1..Len(acts) : acts[i].case = c}
\* the k-th smallest element of a finite set of integers
Kth(S, k) == CHOOSE x \in S : Cardinality({y \in S : y < x}) = k - 1
\* the case's activity names in insertion order
InsertionNames(acts, c) ==
    [k \in 1..Cardinality(IdsOf(acts, c)) |-> acts[Kth(IdsOf(acts, c), k)].name]
\* row i precedes row j chronologically (equal timestamps: insertion order)
Before(acts, i, j) ==
    \/ acts[i].timestamp < acts[j].timestamp
    \/ acts[i].timestamp = acts[j].timestamp /\ i < j
\* the case's activity names in ascending (timestamp, insertion index) order
ChronoNames(acts, c) ==
    LET S == IdsOf(acts, c)
        at(k) == CHOOSE x \in S :
                    Cardinality({y \in S : Before(acts, y, x)}) = k - 1
    IN  [k \in 1..Cardinality(S) |-> acts[at(k)].name]
MaxOf(S) == CHOOSE x \in S : \A y \in S : y <= x
MinOf(S) == CHOOSE x \in S : \A y \in S : x <= y
\* latest minus earliest activity timestamp of the case
Throughput(acts, c) ==
    LET T == {acts[i].timestamp : i \in IdsOf(acts, c)} IN MaxOf(T) - MinOf(T)
RECURSIVE SumOver(_, _)
SumOver(S, f) ==
    IF S = {} THEN 0
    ELSE LET x == CHOOSE y \in S : TRUE IN f[x] + SumOver(S \ {x}, f)
\* the rows of the Variant table whose member list holds the case
RowsWith(V, c) == {i \in 1..Len(V) : InSeq(c, V[i].cases)}
\* a run of create_variants that starts from an empty Variant table
FirstRun == Variant = <<>> /\ create_variants

\* C1: after create_variants on an empty Variant table, every case id with
\* at least one activity is in the member list of exactly one Variant, once,
\* and the member lists hold nothing else.
C1_Post(V, acts) ==
    /\ \A c \in ActiveCases(acts) : Cardinality(RowsWith(V, c)) = 1
    /\ \A i \in 1..Len(V) :
          /\ Range(V[i].cases) \subseteq ActiveCases(acts)
          /\ Cardinality(Range(V[i].cases)) = Len(V[i].cases)
C1_Partition == [][FirstRun => C1_Post(Variant', Activity')]_vars
C1_Witness ==
    /\ Len(Activity) = 3
    /\ Len(Variant) = 2
    /\ Variant[1].cases = <<2>>
    /\ Variant[2].cases = <<1>>
    /\ Len(Variant[2].activities) = 2

\* C2: create_variants puts two cases in the same Variant exactly when the
\* name sequences it collected for them are equal as ordered sequences.
C2_Post(V, acts) ==
    \A c1, c2 \in ActiveCases(acts) :
        (RowsWith(V, c1) \cap RowsWith(V, c2) # {})
            <=> (InsertionNames(acts, c1) = InsertionNames(acts, c2))
C2_SequenceEquality == [][FirstRun => C2_Post(Variant', Activity')]_vars
\* same names in a different order: two variants
C2_Witness ==
    /\ Len(Variant) = 2
    /\ Variant[1].activities = <<"Order Creation", "Order Approval">>
    /\ Variant[2].activities = <<"Order Approval", "Order Creation">>

\* C3: the sequence by which create_variants identifies a case's variant is
\* the case's names in ascending timestamp order (ties: insertion order).
C3_Post(V, acts) ==
    \A c \in ActiveCases(acts) :
        \A i \in RowsWith(V, c) : V[i].activities = ChronoNames(acts, c)
C3_ChronologicalSequence == [][FirstRun => C3_Post(Variant', Activity')]_vars

\* C4: avg_time of every Variant is the mean over its member cases of
\* (latest - earliest activity timestamp); a one-activity case gives 0.
C4_Post(V, acts) ==
    \A i \in 1..Len(V) :
        LET members == Range(V[i].cases)
            total == SumOver(members,
                             [c \in members |-> Throughput(acts, c)])
        IN  /\ V[i].avg_time[1] * Cardinality(members)
                  = total * V[i].avg_time[2]
            /\ V[i].avg_time[2] > 0
            /\ (\A c \in members : Cardinality(IdsOf(acts, c)) = 1)
                  => V[i].avg_time = <<0, 1>>
C4_MeanThroughput == [][FirstRun => C4_Post(Variant', Activity')]_vars
\* a variant of two cases with throughputs 1 and 0 (recorded out of order)
C4_Witness ==
    /\ Len(Variant) = 1
    /\ Len(Variant[1].cases) = 2
    /\ Variant[1].avg_time = <<1, 2>>
    /\ \E i, j \in 1..Len(Activity) :
          /\ i < j
          /\ Activity[i].case = Activity[j].case
          /\ Activity[i].timestamp > Activity[j].timestamp

\* C5: the number_cases values sum to the number of distinct cases, each
\* percentage is 100 * number_cases / total, and the percentages sum to 100.
C5_Post(V, acts) ==
    LET total == Cardinality(ActiveCases(acts))
        rows == 1..Len(V)
    IN  total > 0 =>
          /\ SumOver(rows, [i \in rows |-> V[i].number_cases]) = total
          /\ \A i \in rows :
                /\ V[i].percentage[2] > 0
                /\ V[i].percentage[1] * total
                      = 100 * V[i].number_cases * V[i].percentage[2]
          \* sum of the fractions p[1]/p[2] = 100, over the common
          \* denominator total (every p[2] divides total)
          /\ \A i \in rows : total % V[i].percentage[2] = 0
          /\ SumOver(rows, [i \in rows |->
                  V[i].percentage[1] * (total \div V[i].percentage[2])])
                = 100 * total
C5_PercentageSum == [][FirstRun => C5_Post(Variant', Activity')]_vars
C5_Witness ==
    /\ Len(Activity) = 4
    /\ Len(Variant) = 2
    /\ Variant[1].percentage = <<50, 1>>
    /\ Variant[2].percentage = <<50, 1>>

\* C8: a second run of create_variants on an unchanged activity log leaves
\* the Variant table as the first run left it.
C8_Idempotent ==
    [][(Variant # <<>> /\ Variant = NewVariants(Activity) /\ create_variants)
          => Variant' = Variant]_vars

\* ======================================================================
\* Properties of add_TPT and add_time_to_cases
\* ======================================================================
\* the timestamps of the case's activities
TimesOf(acts, c) == {acts[k].timestamp : k \in IdsOf(acts, c)}
\* the case's activities recorded at time t
AtTime(acts, c, t) == {k \in IdsOf(acts, c) : acts[k].timestamp = t}

\* C6: after add_TPT, for every case and every pair (e, e') adjacent in an
\* ascending-timestamp listing of the case, tpt(e) = e'.timestamp -
\* e.timestamp: of the activities sharing a timestamp all but one are
\* followed by one of the same timestamp (tpt 0), and that one, unless it is
\* the last of the case, by an activity of the next later timestamp.
C6_Post(acts) ==
    \A c \in ActiveCases(acts) :
        \A t \in TimesOf(acts, c) :
            \E e \in AtTime(acts, c, t) :
                /\ \A o \in AtTime(acts, c, t) \ {e} : acts[o].tpt = 0
                /\ t # MaxOf(TimesOf(acts, c)) =>
                      acts[e].tpt =
                        MinOf({u \in TimesOf(acts, c) : u > t}) - t
C6_AdjacentDifference == returned = "add_TPT" => C6_Post(Activity)
\* events at 0, 1 and 3 of one case, not inserted in that order: tpt 1 and 2
C6_Witness ==
    \E a, b, c \in 1..Len(Activity) :
        /\ returned = "add_TPT"
        /\ Activity[a].case = Activity[b].case
        /\ Activity[b].case = Activity[c].case
        /\ Activity[a].timestamp = 0 /\ Activity[a].tpt = 1
        /\ Activity[b].timestamp = 1 /\ Activity[b].tpt = 2
        /\ Activity[c].timestamp = 3 /\ Activity[c].tpt = 0
        /\ b < a

\* C7: add_TPT leaves the tpt of the chronologically last activity of every
\* case as it was (of the activities sharing the latest timestamp, the one
\* listed last); the only activity of a one-activity case is untouched.
C7_LastUntouched ==
    [][add_TPT =>
         \A c \in ActiveCases(Activity) :
            \E e \in AtTime(Activity, c, MaxOf(TimesOf(Activity, c))) :
                Activity'[e].tpt = Activity[e].tpt]_vars
\* add_TPT has run over a two-activity case and a one-activity case
C7_Witness ==
    /\ returned = "add_TPT"
    /\ Len(Activity) = 3
    /\ \E a, b, c \in 1..Len(Activity) :
          /\ Activity[a].case = 1 /\ Activity[b].case = 1
          /\ Activity[a].timestamp = 0 /\ Activity[a].tpt = 2
          /\ Activity[b].timestamp = 2 /\ Activity[b].tpt = 0
          /\ Activity[c].case = 2 /\ Activity[c].tpt = 0

\* C29: add_TPT never stores a negative tpt, whatever the order in which the
\* activities were inserted: every tpt of the Activity table is >= 0.
C29_NonNegativeTpt ==
    \A k \in 1..Len(Activity) : Activity[k].tpt >= 0
\* add_TPT has run over a case whose later activity was inserted first
C29_Witness ==
    /\ returned = "add_TPT"
    /\ \E i, j \in 1..Len(Activity) :
          /\ i < j
          /\ Activity[i].case_index = Activity[j].case_index
          /\ Activity[i].timestamp > Activity[j].timestamp
          /\ Activity[j].tpt = Activity[i].timestamp - Activity[j].timestamp

\* C10: after add_time_to_cases, every case with at least one activity has
\* avg_time = latest - earliest timestamp of its current activities.
C10_Post(cases, acts) ==
    \A c \in ActiveCases(acts) : cases[c].avg_time = Throughput(acts, c)
C10_Recomputed == returned = "add_time_to_cases" => C10_Post(Case, Activity)

\* ======================================================================
\* Properties of handle
\* ======================================================================
\* C9: when handle has completed, every Case row created by
\* add_Orders_Items has at least one Activity.
C9_NoEmptyCase ==
    pc = "done" =>
       \A c \in CaseIds : Case[c].exists => IdsOf(Activity, c) # {}

\* ======================================================================
\* Properties of get_mean_time_per_activity
\* ======================================================================
\* the rows that have a later row of the same case, in insertion order
Followed(acts) ==
    {i \in 1..Len(acts) : \E j \in IdsOf(acts, acts[i].case) : j > i}
\* the next row of the same case
Succ(acts, i) == MinOf({j \in IdsOf(acts, acts[i].case) : j > i})
\* next minus current timestamp, for every followed row
SignedDiff(acts) ==
    [i \in Followed(acts) |-> acts[Succ(acts, i)].timestamp - acts[i].timestamp]
\* the same difference without its sign
Magnitude(acts) ==
    [i \in Followed(acts) |->
        IF SignedDiff(acts)[i] < 0 THEN 0 - SignedDiff(acts)[i]
        ELSE SignedDiff(acts)[i]]
\* the followed rows named name
FollowedNamed(acts, name) == {i \in Followed(acts) : acts[i].name = name}
\* the followed rows named name whose next row is earlier
Backward(acts, name) ==
    {i \in FollowedNamed(acts, name) : SignedDiff(acts)[i] < 0}
MeanReturned == returned = "get_mean_time_per_activity"

DocExample ==
    <<[key |-> 1, value |-> <<[ACTIVIDAD |-> "A", TIMESTAMP |-> 36000],
                             [ACTIVIDAD |-> "B", TIMESTAMP |-> 37800]>>],
      [key |-> 2, value |-> <<[ACTIVIDAD |-> "A", TIMESTAMP |-> 39600],
                             [ACTIVIDAD |-> "B", TIMESTAMP |-> 42300]>>]>>
\* C13: for two cases, each A followed by B, 30 minutes apart in the first
\* and 45 minutes apart in the second, get_mean_time_per_activity returns
\* A -> 1800.0 and B -> 2700.0.
C13_DocstringExample ==
    (MeanReturned /\ get_case_activity_time(Activity) = DocExample) =>
        result.value = <<[key |-> "A", value |-> <<1800, 1>>],
                         [key |-> "B", value |-> <<2700, 1>>]>>

\* ======================================================================
\* Further properties of create_variants
\* ======================================================================
\* C14: on an empty activity log create_variants creates no Variant and
\* completes without a division-by-zero failure.
C14_EmptyLog ==
    (returned = "create_variants" /\ Activity = <<>>) =>
        Variant = <<>> /\ result = None
C14_Witness ==
    /\ returned = "create_variants"
    /\ Activity = <<>>
    /\ Variant = <<>>
    /\ pc = "idle"

\* ======================================================================
\* Properties of the views
\* ======================================================================
\* timestamps of the logs queried through the views: the midnights of
\* 2025-01-01 and 2025-01-02
ViewTimes == {0, 86400}
\* values of the start_date and end_date parameters ("" when absent)
QueryDates == {"", "2025-01-01", "2025-01-02", "01/01/2025"}
\* requests that combine every filter of ActivityList.get
Requests ==
    [case : {{}, {1}},
     name : {{}, {"Order Creation"}},
     case_index : {0, 2},
     var : {{}, {1}},
     start_date : {"", "2025-01-02"},
     end_date : {"", "2025-01-01"}]
\* requests that supply only the dates
DateRequests ==
    [case : {{}}, name : {{}}, case_index : {0}, var : {{}},
     start_date : QueryDates, end_date : QueryDates]
KPIRequests == [start_date : QueryDates, end_date : QueryDates]

Served == returned \in {"ActivityList.get", "KPIList.get", "VariantList.get"}
Listed == returned = "ActivityList.get" /\ result.status = 200
\* the case is a member of a stored Variant whose id is among ids
MemberOfNamed(V, ids, c) ==
    \E v \in ids : v \in 1..Len(V) /\ InSeq(c, V[v].cases)
\* the activity satisfies every filter the request supplies
Satisfies(req, acts, V, i) ==
    /\ req.case # {} => acts[i].case \in req.case
    /\ req.name # {} => acts[i].name \in req.name
    /\ req.case_index # 0 => acts[i].case_index = req.case_index
    /\ req.var # {} => MemberOfNamed(V, req.var, acts[i].case)
    /\ req.start_date # "" =>
          acts[i].timestamp >= StrptimeYmd(req.start_date).date
    /\ req.end_date # "" =>
          acts[i].timestamp <= StrptimeYmd(req.end_date).date
\* more supplies every filter that less supplies, with the same value
Supplies(more, less) ==
    /\ less.case # {} => more.case = less.case
    /\ less.name # {} => more.name = less.name
    /\ less.case_index # 0 => more.case_index = less.case_index
    /\ less.var # {} => more.var = less.var
    /\ less.start_date # "" => more.start_date = less.start_date
    /\ less.end_date # "" => more.end_date = less.end_date

\* C16: ActivityList.get returns exactly the activities that satisfy every
\* supplied filter (case id, name, case_index, membership of a named
\* variant, timestamp range); an absent filter restricts nothing, and a
\* request with additional filters returns no activity that the request
\* without them does not return.
C16_ExactlyFiltered ==
    Listed =>
        /\ Range(result.data.results) =
              {i \in 1..Len(Activity) :
                  Satisfies(request, Activity, Variant, i)}
        /\ \A less \in Requests :
              Supplies(request, less) =>
                  Range(result.data.results)
                      \subseteq Filtered(less, Activity, Variant)

\* C17: when var is supplied, every activity returned by ActivityList.get
\* belongs to a case that is a member of one of the named variants, also
\* when no stored Variant has one of the supplied ids.
C17_InNamedVariant ==
    (Listed /\ request.var # {}) =>
        \A i \in Range(result.data.results) :
            MemberOfNamed(Variant, request.var, Activity[i].case)

\* a supplied date that is not a YYYY-MM-DD date
Unparsable(req) ==
    \/ req.start_date \notin {"", "2025-01-01", "2025-01-02"}
    \/ req.end_date \notin {"", "2025-01-01", "2025-01-02"}
\* C18: a request to ActivityList.get or KPIList.get whose start_date or
\* end_date is not a YYYY-MM-DD date ends with a 400 response that carries
\* only the error, and leaves every table as it was.
C18_InvalidDate ==
    [][(~Served /\ Served' /\ Unparsable(request')) =>
          /\ result'.status = 400
          /\ DOMAIN result'.data = {"error"}
          /\ UNCHANGED <<Activity, Case, Variant, OrderItem, cases_ids>>]_vars
C18_Witness ==
    /\ returned = "KPIList.get"
    /\ request.start_date = "2025-01-01"
    /\ request.end_date = "01/01/2025"
    /\ result.status = 400
    /\ Len(Activity) = 2

\* C19: with only the dates supplied, ActivityList.get returns an activity
\* iff parsed start <= timestamp <= parsed end, each bound applying when
\* supplied; an activity at the parsed start or the parsed end is returned.
C19_InclusiveRange ==
    (Listed /\ request \in DateRequests) =>
        Range(result.data.results) =
            {i \in 1..Len(Activity) :
                /\ request.start_date = "2025-01-01" =>
                      0 <= Activity[i].timestamp
                /\ request.start_date = "2025-01-02" =>
                      86400 <= Activity[i].timestamp
                /\ request.end_date = "2025-01-01" =>
                      Activity[i].timestamp <= 0
                /\ request.end_date = "2025-01-02" =>
                      Activity[i].timestamp <= 86400}
C19_Witness ==
    /\ Listed
    /\ request.start_date = "2025-01-02"
    /\ request.end_date = "2025-01-02"
    /\ Len(Activity) = 2
    /\ Activity[1].timestamp = 0
    /\ Activity[2].timestamp = 86400
    /\ result.data.results = <<2>>

\* C20: the activities returned by ActivityList.get are in ascending
\* timestamp order, whatever filters are supplied.
C20_AscendingTimestamps ==
    Listed =>
        \A k, l \in 1..Len(result.data.results) :
            k < l => Activity[result.data.results[k]].timestamp
                        <= Activity[result.data.results[l]].timestamp
C20_Witness ==
    /\ Listed
    /\ request.name # {}
    /\ request.var # {}
    /\ Len(Variant) = 2
    /\ result.data.results = <<2, 1>>
    /\ Activity[2].timestamp < Activity[1].timestamp

VariantRequests == [activities : SUBSET ActivityNames]
\* C21: VariantList.get returns the variants by descending percentage, and
\* variants of equal percentage in the insertion order of their first-seen
\* case, which is the order of their rows in the Variant table.
C21_DescendingPercentage ==
    returned = "VariantList.get" =>
        \A k, l \in 1..Len(result.data.results) :
            k < l =>
                LET v == result.data.results[k]
                    w == result.data.results[l]
                IN  \/ GreaterPercentage(Variant, v, w)
                    \/ Variant[v].percentage = Variant[w].percentage /\ v < w

\* C22: ActivityList.get and VariantList.get are pure reads: whatever the
\* request, the Activity, Case and Variant tables are the same after the
\* call as before it.
C22_PureRead ==
    [][(~Served /\ returned' \in {"ActivityList.get", "VariantList.get"}) =>
          UNCHANGED <<Activity, Case, Variant>>]_vars
C22_Witness ==
    /\ returned = "VariantList.get"
    /\ request.activities = {"Order Approval"}
    /\ Len(Variant) = 2
    /\ result.data.results = <<2>>

\* the scenario log: cases 1, 2 and 3 stand for A, B and C, t0 is 0
ScenarioEvents ==
    <<NewActivity(1, 0, "Create", TRUE), NewActivity(1, 60, "Approve", TRUE),
      NewActivity(2, 0, "Create", TRUE), NewActivity(2, 120, "Approve", TRUE),
      NewActivity(3, 0, "Create", TRUE), NewActivity(3, 30, "Reject", TRUE)>>
\* the insertion orders of the scenario log that keep each case's own order
ScenarioLogs ==
    {[k \in 1..6 |-> ScenarioEvents[p[k]]] :
        p \in {q \in [1..6 -> 1..6] :
                  /\ \A k, l \in 1..6 : k # l => q[k] # q[l]
                  /\ \A k, l \in 1..6 :
                        (q[k] \in {1, 3, 5} /\ q[l] = q[k] + 1) => k < l}}
\* a fraction rounded to two decimals, as hundredths
Hundredths(q) == (q[1] * 200 + q[2]) \div (2 * q[2])
ScenarioRun == returned = "create_variants" /\ Activity \in ScenarioLogs
\* C24: on the scenario log create_variants yields exactly two variants:
\* (Create, Approve) with 2 cases, percentage 66.67 and mean time 90, and
\* (Create, Reject) with 1 case, percentage 33.33 and mean time 30.
C24_Scenario ==
    ScenarioRun =>
        /\ Len(Variant) = 2
        /\ \E v, w \in 1..2 :
              /\ Variant[v].activities = <<"Create", "Approve">>
              /\ Variant[v].number_cases = 2
              /\ Variant[v].percentage = Rat(6667, 100)
              /\ Variant[v].avg_time = <<90, 1>>
              /\ Variant[w].activities = <<"Create", "Reject">>
              /\ Variant[w].number_cases = 1
              /\ Variant[w].percentage = Rat(3333, 100)
              /\ Variant[w].avg_time = <<30, 1>>
\* C24, amended: the same, the percentages being 66.67 and 33.33 when
\* rounded to two decimals (the stored values are 200/3 and 100/3).
C24_ScenarioRounded ==
    ScenarioRun =>
        /\ Len(Variant) = 2
        /\ \E v, w \in 1..2 :
              /\ Variant[v].activities = <<"Create", "Approve">>
              /\ Variant[v].number_cases = 2
              /\ Hundredths(Variant[v].percentage) = 6667
              /\ Variant[v].percentage = <<200, 3>>
              /\ Variant[v].avg_time = <<90, 1>>
              /\ Variant[w].activities = <<"Create", "Reject">>
              /\ Variant[w].number_cases = 1
              /\ Hundredths(Variant[w].percentage) = 3333
              /\ Variant[w].percentage = <<100, 3>>
              /\ Variant[w].avg_time = <<30, 1>>
C24_Witness ==
    /\ ScenarioRun
    /\ Activity[1].case = 3
    /\ Activity[6].case = 2
    /\ Len(Variant) = 2
    /\ Variant[1].cases = <<3>>

\* ======================================================================
\* Properties of the case simulation
\* ======================================================================
\* the pairs (activity, activity recorded next) of the simulated process
Allowed ==
    {<<"Order Creation", "Order Approval">>,
     <<"Order Approval", "Send to Supplier">>,
     <<"Order Approval", "Order Modification">>,
     <<"Order Approval", "Order Cancellation">>,
     <<"Order Modification", "Order Approval">>,
     <<"Send to Supplier", "Get Confirmation from Supplier">>,
     <<"Get Confirmation from Supplier",
       "Receive Shipment Confirmation from Supplier">>,
     <<"Get Confirmation from Supplier", "Order Modification">>,
     <<"Get Confirmation from Supplier", "Order Cancellation">>,
     <<"Receive Shipment Confirmation from Supplier", "Receive Invoice">>,
     <<"Receive Invoice", "Receive Materials">>,
     <<"Receive Materials", "Receive Materials">>,
     <<"Receive Materials", "Verify Materials">>,
     <<"Verify Materials", "Accept Materials">>,
     <<"Verify Materials", "Return Materials">>,
     <<"Verify Materials", "Order Cancellation">>,
     <<"Return Materials", "Send to Supplier">>,
     <<"Accept Materials", "Integrate to Inventory">>,
     <<"Integrate to Inventory", "Payment">>,
     <<"Payment", "Distribute Materials">>}
Terminal == {"Distribute Materials", "Order Cancellation"}
\* start(c) has returned
Simulated(c) == IdsOf(Activity, c) # {} /\ case_info.case_id # c

\* C25: the activities start(case) records form a path of the simulated
\* process: first 'Order Creation', then 'Order Approval', every consecutive
\* pair allowed by the generator, and, once start has returned, a last
\* activity 'Distribute Materials' or 'Order Cancellation', which nothing
\* follows.
C25_ProcessPath ==
    \A c \in CaseIds :
        LET s == SelectSeq(Activity, LAMBDA a : a.case = c)
        IN  /\ s # <<>> => s[1].name = "Order Creation"
            /\ Len(s) >= 2 => s[2].name = "Order Approval"
            /\ \A k \in 1..(Len(s) - 1) :
                  <<s[k].name, s[k + 1].name>> \in Allowed
            /\ Simulated(c) => Last(s).name \in Terminal
C25_Witness ==
    /\ Simulated(1)
    /\ \E k \in 1..Len(Activity) : Activity[k].name = "Return Materials"
    /\ Last(Activity).name = "Order Cancellation"

\* C26: within a case the activities recorded by start(case) have
\* non-decreasing timestamps in the order they are created, none before the
\* case's order_date.
C26_NonDecreasing ==
    \A c \in CaseIds :
        /\ \A i, j \in IdsOf(Activity, c) :
              i < j => Activity[i].timestamp <= Activity[j].timestamp
        /\ \A i \in IdsOf(Activity, c) :
              Activity[i].timestamp >= Case[c].order_date
C26_Witness ==
    /\ Simulated(1)
    /\ Activity[1].timestamp = Case[1].order_date
    /\ Last(Activity).timestamp > Activity[1].timestamp
    /\ Last(Activity).name = "Distribute Materials"

\* C27: the simulation of a case that start has begun ends: unless the
\* branches back to an earlier step are taken for ever, start records
\* 'Distribute Materials' or 'Order Cancellation' and returns.
C27_Terminates ==
    (case_info.case_id = 1) ~>
        (/\ case_info = NoInfo
         /\ returned = "start"
         /\ Activity # <<>>
         /\ Last(Activity).name \in Terminal)
C27_Witness ==
    /\ case_info = NoInfo
    /\ returned = "start"
    /\ LoopsTaken(Activity, 1) = MaxLoops
    /\ \E k \in 1..Len(Activity) : Activity[k].name = "Order Modification"
    /\ Last(Activity).name = "Distribute Materials"

\* C28: after add_reworks on the activities of the generator, for every
\* case and every activity name occurring in it exactly one activity of that
\* name has rework = False, one with the earliest timestamp, and the other
\* activities of that name keep rework = True.
C28_OneFirstOccurrence ==
    returned = "add_reworks" =>
        \A i \in 1..Len(Activity) :
            LET S == {k \in IdsOf(Activity, Activity[i].case) :
                         Activity[k].name = Activity[i].name}
            IN  \E k \in S :
                    /\ ~Activity[k].rework
                    /\ \A y \in S :
                          Activity[k].timestamp <= Activity[y].timestamp
                    /\ \A y \in S \ {k} : Activity[y].rework
C28_Witness ==
    /\ returned = "add_reworks"
    /\ \E i, j \in 1..Len(Activity) :
          /\ Activity[i].name = Activity[j].name
          /\ Activity[i].timestamp < Activity[j].timestamp
          /\ ~Activity[i].rework
          /\ Activity[j].rework

\* ======================================================================
\* Round trip of Variant.cases
\* ======================================================================
\* C30: for every Variant written by create_variants, the case ids that
\* ActivityList.get parses out of the stored `cases` text are the ids of the
\* member cases that create_variants grouped into the variant, whatever
\* characters the case ids hold.
C30_RoundTrip ==
    returned = "create_variants" =>
        \A v \in 1..Len(Variant) :
            ParseCases(Str(Variant[v].cases))
                = {CaseId(c) : c \in Range(Variant[v].cases)}

\* ======================================================================
\* Properties of add_Orders_Items
\* ======================================================================
\* the rows of the file whose order_date is a %m/%d/%Y date
WellFormed(csv) == SelectSeq(csv, LAMBDA row : row.order_date = "01/01/2025")
\* how many of the rows are of the order
RowsOf(rows, id) == Cardinality({i \in 1..Len(rows) : rows[i].order_id = id})
\* C23: add_Orders_Items skips a row whose order_date is empty or is not a
\* %m/%d/%Y date: the Case and OrderItem tables end as if the file held only
\* its other rows, those after a skipped row included.
C23_SkipMalformed ==
    [][add_Orders_Items =>
          LET rows == WellFormed(request'.csv)
          IN  /\ \A c \in CaseIds :
                    /\ Case'[c].exists <=>
                          (Case[c].exists \/ RowsOf(rows, c) > 0)
                    /\ Case'[c].exists =>
                          Case'[c].number_of_items =
                              IF Case[c].exists
                              THEN Case[c].number_of_items + RowsOf(rows, c)
                              ELSE RowsOf(rows, c)
              /\ OrderItem' =
                    OrderItem \o [i \in 1..Len(rows) |->
                                     [order |-> rows[i].order_id]]]_vars
C23_Witness ==
    /\ returned = "add_Orders_Items"
    /\ Len(request.csv) = 2
    /\ request.csv[1].order_date = "2025-01-01"
    /\ request.csv[2].order_date = "01/01/2025"
    /\ request.csv[1].order_id # request.csv[2].order_id
    /\ ~Case[request.csv[1].order_id].exists
    /\ Case[request.csv[2].order_id].exists
    /\ Len(OrderItem) = 1

\* ------------------------------------------------------- specifications
Init ==
    /\ Activity = <<>>
    /\ Case = [c \in CaseIds |->
                 [exists |-> TRUE, id |-> <<ToString(c)>>, avg_time |-> 0,
                  order_date |-> 0,
                  number_of_items |-> 1]]
    /\ Variant = <<>>
    /\ cases_ids = <<>>
    /\ OrderItem = [c \in CaseIds |-> [order |-> c]]
    /\ pc = "idle"
    /\ loop_pos = 0
    /\ case_info = NoInfo
    /\ returned = "none"
    /\ result = None
    /\ request = NoRequest

Next ==
    \/ \E c \in CaseIds, t \in Times, n \in ActivityNames :
          save_activity(c, t, n)
    \/ add_reworks
    \/ create_variants
    \/ add_TPT
    \/ add_time_to_cases

Spec == Init /\ [][Next]_vars

\* the activity log and create_variants
NextVariants ==
    \/ \E c \in CaseIds, t \in Times, n \in ActivityNames :
          save_activity(c, t, n)
    \/ create_variants

SpecVariants == Init /\ [][NextVariants]_vars

\* logs recorded at one instant and create_variants (whose grouping of the
\* cases reads no timestamp)
NextGrouping ==
    \/ \E c \in CaseIds, n \in ActivityNames : save_activity(c, 0, n)
    \/ create_variants

SpecGrouping == Init /\ [][NextGrouping]_vars

\* logs of one activity name and create_variants (whose durations read no
\* activity name)
NextThroughput ==
    \/ \E c \in CaseIds, t \in Times :
          save_activity(c, t, "Order Creation")
    \/ create_variants

SpecThroughput == Init /\ [][NextThroughput]_vars

\* the activity log and add_TPT (which reads no activity name)
NextTPT ==
    \/ \E c \in CaseIds, t \in ClockTimes :
          /\ Len(Activity) < MaxClockActs
          /\ save_activity(c, t, "Order Creation")
    \/ add_TPT

SpecTPT == Init /\ [][NextTPT]_vars

\* the activity log and add_time_to_cases (which reads no activity name)
NextCaseTime ==
    \/ \E c \in CaseIds, t \in ClockTimes :
          /\ Len(Activity) < MaxClockActs
          /\ save_activity(c, t, "Order Creation")
    \/ add_time_to_cases

SpecCaseTime == Init /\ [][NextCaseTime]_vars

\* the activity log and get_mean_time_per_activity
NextMeanTime ==
    \/ \E c \in CaseIds, t \in Times, n \in ActivityNames :
          /\ Len(Activity) < MaxClockActs
          /\ save_activity(c, t, n)
    \/ get_mean_time_per_activity

SpecMeanTime == Init /\ [][NextMeanTime]_vars

\* logs over the names and the times of day of the docstring example of
\* get_mean_time_per_activity
NextDocExample ==
    \/ \E c \in CaseIds, t \in {36000, 37800, 39600, 42300},
          n \in {"A", "B"} : save_activity(c, t, n)
    \/ get_mean_time_per_activity

SpecDocExample == Init /\ [][NextDocExample]_vars

\* the activity log and the views' date parameters; a request is served on
\* tables as the commands left them (a view changes no table)
NextActivityDates ==
    \/ \E c \in CaseIds, t \in ViewTimes :
          /\ Len(Activity) < MaxViewActs
          /\ save_activity(c, t, "Order Creation")
    \/ \E req \in DateRequests : ~Served /\ ActivityList_get(req)
    \/ \E req \in KPIRequests : ~Served /\ KPIList_get(req)

SpecActivityDates == Init /\ [][NextActivityDates]_vars

\* the activity log, create_variants and every filter of ActivityList.get
NextActivityList ==
    \/ \E c \in CaseIds, t \in ViewTimes, n \in ActivityNames :
          /\ Len(Activity) < MaxViewActs
          /\ save_activity(c, t, n)
    \/ create_variants
    \/ \E req \in Requests : ~Served /\ ActivityList_get(req)

SpecActivityList == Init /\ [][NextActivityList]_vars

\* logs recorded at one instant, create_variants and the two list views
NextReads ==
    \/ \E c \in CaseIds, n \in ActivityNames :
          /\ Len(Activity) < MaxViewActs
          /\ save_activity(c, 0, n)
    \/ create_variants
    \/ \E req \in Requests : ~Served /\ ActivityList_get(req)
    \/ \E req \in VariantRequests : ~Served /\ VariantList_get(req)

SpecReads == Init /\ [][NextReads]_vars

\* add_Orders_Items run on a database that holds any of the orders already
InitOrders ==
    /\ Activity = <<>>
    /\ \E stored \in SUBSET CaseIds :
          Case = [c \in CaseIds |->
                    IF c \in stored
                    THEN [exists |-> TRUE, id |-> <<ToString(c)>>,
                          avg_time |-> 0, order_date |-> 0,
                          number_of_items |-> 1]
                    ELSE NoRow]
    /\ Variant = <<>>
    /\ cases_ids = <<>>
    /\ OrderItem = <<>>
    /\ pc = "add_Orders_Items"
    /\ loop_pos = 0
    /\ case_info = NoInfo
    /\ returned = "none"
    /\ result = None
    /\ request = NoRequest

NextOrders == add_Orders_Items

SpecOrders == InitOrders /\ [][NextOrders]_vars

\* create_variants run on the scenario log
InitScenario ==
    /\ Activity \in ScenarioLogs
    /\ Case = [c \in 1..3 |->
                 [exists |-> TRUE, id |-> <<ToString(c)>>, avg_time |-> 0,
                  order_date |-> 0,
                  number_of_items |-> 1]]
    /\ Variant = <<>>
    /\ cases_ids = <<>>
    /\ OrderItem = [c \in 1..3 |-> [order |-> c]]
    /\ pc = "idle"
    /\ loop_pos = 0
    /\ case_info = NoInfo
    /\ returned = "none"
    /\ result = None
    /\ request = NoRequest

NextScenario == create_variants

SpecScenario == InitScenario /\ [][NextScenario]_vars

\* case ids as add_Orders_Items can read them from the order_id column
IdTexts ==
    {<<"1">>, <<"2">>, <<"3">>, <<"1", ",", "2">>, <<" ", "1">>,
     <<"1", "'">>}

\* cases of any distinct ids, their activity log and create_variants
InitRoundTrip ==
    /\ Activity = <<>>
    /\ \E ids \in [CaseIds -> IdTexts] :
          /\ \A c, d \in CaseIds : ids[c] = ids[d] => c = d
          /\ Case = [c \in CaseIds |->
                       [exists |-> TRUE, id |-> ids[c], avg_time |-> 0,
                        order_date |-> 0, number_of_items |-> 1]]
    /\ Variant = <<>>
    /\ cases_ids = <<>>
    /\ OrderItem = [c \in CaseIds |-> [order |-> c]]
    /\ pc = "idle"
    /\ loop_pos = 0
    /\ case_info = NoInfo
    /\ returned = "none"
    /\ result = None
    /\ request = NoRequest

NextRoundTrip ==
    \/ \E c \in CaseIds :
          /\ Len(Activity) < MaxViewActs
          /\ save_activity(c, 0, "Order Creation")
    \/ create_variants

SpecRoundTrip == InitRoundTrip /\ [][NextRoundTrip]_vars

\* the simulation of one case that add_Orders_Items listed, and add_reworks
InitSimulation ==
    /\ Activity = <<>>
    /\ Case = [c \in CaseIds |->
                 [exists |-> TRUE, id |-> <<ToString(c)>>, avg_time |-> 0,
                  order_date |-> 0,
                  number_of_items |-> 2]]
    /\ Variant = <<>>
    /\ cases_ids = <<1>>
    /\ OrderItem = [k \in 1..(2 * NumCases) |-> [order |-> (k + 1) \div 2]]
    /\ pc = "start"
    /\ loop_pos = 1
    /\ case_info = NoInfo
    /\ returned = "add_Orders_Items"
    /\ result = None
    /\ request = NoRequest

NextSimulation ==
    \/ start
    \/ order_creation
    \/ order_approval
    \/ order_modification
    \/ order_cancelation
    \/ send_to_supplier
    \/ get_confirmation
    \/ receive_shipment_confirmation
    \/ receive_invoice
    \/ receive_materials
    \/ material_inspection
    \/ material_acceptance
    \/ cases_added
    \/ add_reworks

SpecSimulation == InitSimulation /\ [][NextSimulation]_vars

\* the steps of start(case) and of the methods it calls
Simulation ==
    \/ start
    \/ order_creation
    \/ order_approval
    \/ order_modification
    \/ order_cancelation
    \/ send_to_supplier
    \/ get_confirmation
    \/ receive_shipment_confirmation
    \/ receive_invoice
    \/ receive_materials
    \/ material_inspection
    \/ material_acceptance

\* the same, the single thread of the command taking the next step of a
\* simulation that has one
SpecSimulationFair == SpecSimulation /\ WF_vars(Simulation)

\* the create_data command run on an empty database
InitHandle ==
    /\ Activity = <<>>
    /\ Case = [c \in CaseIds |-> NoRow]
    /\ Variant = <<>>
    /\ cases_ids = <<>>
    /\ OrderItem = <<>>
    /\ pc = "add_Orders_Items"
    /\ loop_pos = 0
    /\ case_info = NoInfo
    /\ returned = "none"
    /\ result = None
    /\ request = NoRequest

NextHandle ==
    \/ add_Orders_Items
    \/ start
    \/ order_creation
    \/ order_approval
    \/ order_modification
    \/ order_cancelation
    \/ send_to_supplier
    \/ get_confirmation
    \/ receive_shipment_confirmation
    \/ receive_invoice
    \/ receive_materials
    \/ material_inspection
    \/ material_acceptance
    \/ cases_added
    \/ add_reworks
    \/ add_time_to_cases
    \/ create_variants
    \/ add_TPT
    \/ get_mean_time_per_activity

SpecHandle == InitHandle /\ [][NextHandle]_vars
====
